---- MODULE Spec2Model ----
(***************************************************************************)
(* Model of the chat client's two asynchronous pipelines:                  *)
(*   - attachment ingestion (InputArea in components/ChatMessage.tsx):     *)
(*     processFiles, the FileReader callbacks, cleanupReader,              *)
(*     cancelUpload, removeAttachment, clearAttachments;                   *)
(*   - speech playback (App.tsx): stopAudio, handleSpeak and its           *)
(*     continuation after each await, the auto-speak effect and timer.     *)
(* Every event handler runs to completion (single-threaded event loop), so *)
(* one action is one handler, or one continuation between two awaits.      *)
(***************************************************************************)
EXTENDS Integers, Sequences, FiniteSets, TLC

VARIABLES
    \* ---- InputArea (components/ChatMessage.tsx) ----
    readers,          \* every FileReader created so far, by creation order
    activeReaders,    \* activeReaders.current: sequence of reader ids
    attachments,      \* attachments state: sequence of Attachment records
    isProcessing,     \* isProcessing state
    \* ---- App (src/App.tsx) ----
    messages,         \* messages state: sequence of [id, role]
    isSpeakingId,     \* isSpeakingId state (NULL or a message id)
    speakingLoading,  \* speakingLoading state
    audioContextRef,  \* audioContextRef.current: NULL, or the context's state
                      \* ("suspended", "running", "closed")
    contextsCreated,  \* how many AudioContext objects were constructed
    activeSourceRef,  \* activeSourceRef.current: NULL or a task's source node
    autoSpeak,        \* autoSpeak state
    lastSpokenMessageId, \* lastSpokenMessageId.current
    tasks,            \* every handleSpeak invocation that got past the toggle
    timers,           \* pending setTimeout(() => handleSpeak(lastMessage), 100)
    isLoading,        \* isLoading state: a chat request is outstanding
    ttsSpeed,         \* ttsSpeed state, in tenths (10 is 1.0x)
    mounted,          \* App is mounted (the mount effect's cleanup has not run)
    clock,            \* Date.now(), counted in message ids handed out
    \* ---- both ----
    notice            \* the alert() raised by the last handler, or NoAlert

ingestVars == <<readers, activeReaders, attachments, isProcessing>>
speakVars  == <<messages, isSpeakingId, speakingLoading, audioContextRef,
                contextsCreated, activeSourceRef, autoSpeak,
                lastSpokenMessageId, tasks, timers>>
appVars    == <<isLoading, ttsSpeed, mounted, clock>>
vars == <<readers, activeReaders, attachments, isProcessing, messages,
          isSpeakingId, speakingLoading, audioContextRef, activeSourceRef,
          autoSpeak, lastSpokenMessageId, tasks, timers, isLoading, ttsSpeed,
          contextsCreated, mounted, clock, notice>>

\* ------------------------------------------------------------------ bounds
MaxReaders == 2     \* files handed to processFiles before the readers run out
MaxBatch   == 2     \* files in one picker / paste / drop event
MaxTasks   == 2     \* handleSpeak invocations that start a session
MaxMessages == 5    \* messages in the conversation
MaxClock   == 4     \* message ids handed out by Date.now()

\* --------------------------------------------------------------- constants
NULL == "null"
NoAlert         == "none"
ValidationAlert == "Only image files are supported."
TtsAlert        == "Failed to generate speech. Please check your API Key."

\* Playback speeds are kept in tenths: the slider's min, max and the
\* useState default.
MinSpeed     == 5
MaxSpeed     == 20
DefaultSpeed == 10

\* Strings the code inspects character by character are sequences of
\* one-character strings.
ImagePrefix == <<"i","m","a","g","e","/">>
ImageWord   == <<"i","m","a","g","e">>
ImagePng    == <<"i","m","a","g","e","/","p","n","g">>
ImageGif    == <<"i","m","a","g","e","/","g","i","f">>
TextPlain   == <<"t","e","x","t","/","p","l","a","i","n">>
XImage      == <<"x","/","i","m","a","g","e">>

\* The files a user can hand over: two images (one of them empty), a text
\* file, and a file whose type mentions "image" without starting with it.
FileKinds ==
    { [type |-> ImagePng,  size |-> 3],
      [type |-> ImageGif,  size |-> 0],
      [type |-> TextPlain, size |-> 3],
      [type |-> XImage,    size |-> 3] }

Batches == UNION { [1..n -> FileKinds] : n \in 1..MaxBatch }

\* ----------------------------------------------------------------- helpers
\* String.prototype.startsWith
StartsWith(s, p) == Len(s) >= Len(p) /\ SubSeq(s, 1, Len(p)) = p

\* String.prototype.indexOf(p) !== -1
Contains(s, p) ==
    \E i \in 1..(Len(s) - Len(p) + 1) : SubSeq(s, i, i + Len(p) - 1) = p

\* Array.prototype.indexOf, 1-based; 0 stands for -1
IndexOf(seq, x) ==
    IF \E i \in 1..Len(seq) : seq[i] = x
    THEN CHOOSE i \in 1..Len(seq) : seq[i] = x /\ \A j \in 1..(i-1) : seq[j] # x
    ELSE 0

\* Array.prototype.splice(index, 1), 1-based
Splice1(seq, index) == SubSeq(seq, 1, index - 1) \o SubSeq(seq, index + 1, Len(seq))

Range(seq) == { seq[i] : i \in 1..Len(seq) }

\* Length of the base64 text of n bytes
Base64Len(n) == 4 * ((n + 2) \div 3)

\* reader.readAsDataURL result "data:<type>;base64,<payload>", kept as its
\* two sides of the comma; result.split(',')[1] is the payload.
DataURL(file) == [head |-> file.type, payload |-> Base64Len(file.size)]
SplitPayload(result) == result.payload

\* ============================================================ InputArea ==
\* A FileReader: the file it reads, its outcome so far ("loading", then one
\* of "loaded", "error", "aborted"), the index of the first reader of the
\* processFiles call that created it, and whether a cancelUpload /
\* clearAttachments call was made while it was pending / still reading.
NewReader(file, first) ==
    [file |-> file, state |-> "loading", batch |-> first,
     cancelled |-> FALSE, cleared |-> FALSE]

\* A filter that looks for "image" anywhere in the type, as handlePaste does.
IsValidFileAnywhere(f) == Contains(f.type, ImageWord)

IsValidFile(f) == StartsWith(f.type, ImagePrefix)

\* A cleanupReader that forgets to clear the flag after the last reader.
CleanupReaderKeepsFlag(reader, st) ==
    LET index == IndexOf(st.active, reader)
    IN  [st EXCEPT !.active = IF index > 0 THEN Splice1(st.active, index)
                              ELSE st.active]

\* cleanupReader(reader), on the pair (activeReaders.current, isProcessing)
CleanupReader(reader, st) ==
    LET index  == IndexOf(st.active, reader)
        active == IF index > 0 THEN Splice1(st.active, index) ELSE st.active
    IN  [st EXCEPT !.active = active,
                   !.proc   = IF Len(active) = 0 THEN FALSE ELSE st.proc]

\* reader.abort(): on a reader that is still loading it sets the reader
\* done and fires the abort event before it returns, so reader.onabort
\* (cleanupReader) runs inside the call; on a finished reader it fires nothing.
Abort(reader, st) ==
    IF st.readers[reader].state = "loading"
    THEN CleanupReader(reader,
             [st EXCEPT !.readers[reader].state = "aborted"])
    ELSE st

\* activeReaders.current.forEach(reader => reader.abort()): forEach visits
\* the indices 0..len-1 of the length read at the start and skips an index
\* the array no longer has; the array shrinks under it when onabort splices.
RECURSIVE ForEachAbort(_, _, _)
ForEachAbort(k, len, st) ==
    IF k > len THEN st
    ELSE IF k > Len(st.active) THEN ForEachAbort(k + 1, len, st)
    ELSE ForEachAbort(k + 1, len, Abort(st.active[k], st))

\* A cancelUpload that flips the flag instead of lowering it.
CancelUploadFlipsFlag(st) ==
    LET after == ForEachAbort(1, Len(st.active), st)
    IN  [after EXCEPT !.active = << >>, !.proc = ~st.proc]

\* cancelUpload(), as a function of the state
CancelUploadResult(st) ==
    LET after == ForEachAbort(1, Len(st.active), st)
    IN  [after EXCEPT !.active = << >>, !.proc = FALSE]

IngestState == [readers |-> readers, active |-> activeReaders, proc |-> isProcessing]

\* processFiles(files)
ProcessFiles(files) ==
    LET validFiles == SelectSeq(files, IsValidFile)
        first      == Len(readers) + 1
    IN  IF Len(validFiles) = 0 /\ Len(files) > 0
        THEN /\ notice' = ValidationAlert
             /\ UNCHANGED ingestVars
        ELSE /\ isProcessing' = TRUE
             /\ readers' = readers \o
                    [i \in 1..Len(validFiles) |-> NewReader(validFiles[i], first)]
             /\ activeReaders' = activeReaders \o
                    [i \in 1..Len(validFiles) |-> Len(readers) + i]
             /\ notice' = NoAlert
             /\ UNCHANGED attachments

\* The three entry points hand processFiles a non-empty list.
HandleFileChange(files) ==
    /\ ~isProcessing                 \* the picker button is disabled otherwise
    /\ Len(files) > 0
    /\ Len(readers) + Len(files) <= MaxReaders
    /\ ProcessFiles(files)
    /\ UNCHANGED <<speakVars, appVars>>

IsImageItem(f) == Contains(f.type, ImageWord)

HandlePaste(items) ==
    LET files == SelectSeq(items, IsImageItem)
    IN  /\ Len(files) > 0
        /\ Len(readers) + Len(files) <= MaxReaders
        /\ ProcessFiles(files)
        /\ UNCHANGED <<speakVars, appVars>>

OnDrop(files) ==
    /\ Len(files) > 0
    /\ Len(readers) + Len(files) <= MaxReaders
    /\ ProcessFiles(files)
    /\ UNCHANGED <<speakVars, appVars>>

\* An onload that puts the new attachment at the head of the list.
ReaderOnLoadPrepends(reader) ==
    LET file   == readers[reader].file
        result == DataURL(file)
        newAttachment == [mimeType |-> file.type, data |-> SplitPayload(result),
                          size |-> file.size, reader |-> reader]
        st == CleanupReader(reader,
                  [IngestState EXCEPT !.readers[reader].state = "loaded"])
    IN  /\ readers[reader].state = "loading"
        /\ attachments' = <<newAttachment>> \o attachments
        /\ readers' = st.readers
        /\ activeReaders' = st.active
        /\ isProcessing' = st.proc
        /\ notice' = NoAlert
        /\ UNCHANGED <<speakVars, appVars>>

\* reader.onload
ReaderOnLoad(reader) ==
    LET file   == readers[reader].file
        result == DataURL(file)
        newAttachment == [mimeType |-> file.type, data |-> SplitPayload(result),
                          size |-> file.size, reader |-> reader]
        st == CleanupReader(reader,
                  [IngestState EXCEPT !.readers[reader].state = "loaded"])
    IN  /\ readers[reader].state = "loading"
        /\ attachments' = Append(attachments, newAttachment)
        /\ readers' = st.readers
        /\ activeReaders' = st.active
        /\ isProcessing' = st.proc
        /\ notice' = NoAlert
        /\ UNCHANGED <<speakVars, appVars>>

\* An onerror that gives up on the whole upload: it cancels the siblings.
ReaderOnErrorCancelsAll(reader) ==
    LET st == CancelUploadResult(
                  [IngestState EXCEPT !.readers[reader].state = "error"])
    IN  /\ readers[reader].state = "loading"
        /\ readers' = st.readers
        /\ activeReaders' = st.active
        /\ isProcessing' = st.proc
        /\ notice' = NoAlert
        /\ UNCHANGED <<attachments, speakVars, appVars>>

\* An onerror that only logs and leaves the reader in the pending set.
ReaderOnErrorNoCleanup(reader) ==
    /\ readers[reader].state = "loading"
    /\ readers' = [readers EXCEPT ![reader].state = "error"]
    /\ notice' = NoAlert
    /\ UNCHANGED <<activeReaders, isProcessing, attachments, speakVars, appVars>>

\* reader.onerror
ReaderOnError(reader) ==
    LET st == CleanupReader(reader,
                  [IngestState EXCEPT !.readers[reader].state = "error"])
    IN  /\ readers[reader].state = "loading"
        /\ readers' = st.readers
        /\ activeReaders' = st.active
        /\ isProcessing' = st.proc
        /\ notice' = NoAlert
        /\ UNCHANGED <<attachments, speakVars, appVars>>

\* Marks, for the record, the readers a cancelUpload call found pending.
MarkCancelled(rs, pending) ==
    [r \in 1..Len(rs) |->
        IF r \in pending THEN [rs[r] EXCEPT !.cancelled = TRUE] ELSE rs[r]]

\* Marks the readers still reading when clearAttachments is called.
MarkCleared(rs) ==
    [r \in 1..Len(rs) |->
        IF rs[r].state = "loading" THEN [rs[r] EXCEPT !.cleared = TRUE] ELSE rs[r]]

\* cancelUpload(), the Cancel button (shown while isProcessing)
CancelUpload ==
    LET st == CancelUploadResult(IngestState)
    IN  /\ isProcessing
        /\ readers' = MarkCancelled(st.readers, Range(activeReaders))
        /\ activeReaders' = st.active
        /\ isProcessing' = st.proc
        /\ notice' = NoAlert
        /\ UNCHANGED <<attachments, speakVars, appVars>>

\* removeAttachment(index), 1-based
RemoveAttachment(index) ==
    /\ index \in 1..Len(attachments)
    /\ attachments' = Splice1(attachments, index)
    /\ notice' = NoAlert
    /\ UNCHANGED <<readers, activeReaders, isProcessing, speakVars, appVars>>

\* clearAttachments(), the Clear All button (shown when there is an
\* attachment or isProcessing)
ClearAttachments ==
    LET st == CancelUploadResult(
                  [IngestState EXCEPT !.readers = MarkCleared(readers)])
    IN  /\ Len(attachments) > 0 \/ isProcessing
        /\ readers' = MarkCancelled(st.readers, Range(activeReaders))
        /\ activeReaders' = st.active
        /\ isProcessing' = st.proc
        /\ attachments' = << >>
        /\ notice' = NoAlert
        /\ UNCHANGED <<speakVars, appVars>>

InitIngest ==
    /\ readers = << >>
    /\ activeReaders = << >>
    /\ attachments = << >>
    /\ isProcessing = FALSE

NextIngest ==
    \/ \E files \in Batches : HandleFileChange(files)
    \/ \E items \in Batches : HandlePaste(items)
    \/ \E files \in Batches : OnDrop(files)
    \/ \E reader \in 1..Len(readers) : ReaderOnLoad(reader)
    \/ \E reader \in 1..Len(readers) : ReaderOnError(reader)
    \/ CancelUpload
    \/ \E index \in 1..MaxReaders : RemoveAttachment(index)
    \/ ClearAttachments

\* processFiles taken by itself, called with any list, the empty one too
\* (no handler of InputArea passes it an empty list).
SubmitFiles(files) ==
    /\ Len(readers) + Len(files) <= MaxReaders
    /\ ProcessFiles(files)
    /\ UNCHANGED <<speakVars, appVars>>

NextSubmit == \E files \in Batches \cup { << >> } : SubmitFiles(files)

\* ================================================================== App ==
\* Message histories the mount effect can load from localStorage: the
\* welcome message alone, or followed by an exchange, or by a user message
\* whose reply was never saved.
\* text is whether the message's text is non-blank.
Welcome == [id |-> "welcome", role |-> "model", text |-> TRUE,
            attachments |-> << >>]
User1   == [id |-> "u1", role |-> "user", text |-> TRUE,
            attachments |-> << >>]
Model1  == [id |-> "m1", role |-> "model", text |-> TRUE,
            attachments |-> << >>]
Histories == { <<Welcome>>, <<Welcome, User1>>, <<Welcome, User1, Model1>> }

\* A task is one run of handleSpeak past line 215: the message it speaks,
\* the ttsSpeed its closure captured (rate),
\* the await it is suspended at ("resume", "generate", "decode", "play"),
\* or how it finished ("ended", "failed"); "stopped" is a source halted by
\* stop() whose ended event is still to come. autoSpeak is the value its
\* closure captured. cancel records the stopAudio call, if any, that was
\* made while the task was in flight: by the toggle branch for the same
\* message ("toggle_*") or by any other stop ("super_*"), and whether the
\* task was then still requesting ("*_req") or already playing ("*_play").
InFlight   == {"resume", "generate", "decode", "play"}
Requesting == {"resume", "generate", "decode"}

IsInFlight(task) == task.pc \in InFlight

\* utils/audioUtils playAudioBuffer: the buffer is audible from the call
\* until the source ends or is stopped.
Audible(task) == task.pc = "play"

\* The stop bookkeeping of one stopAudio call made by handleSpeak(id);
\* toggle is TRUE in the branch of line 210.
MarkStopped(ts, id, toggle) ==
    [t \in 1..Len(ts) |->
        IF IsInFlight(ts[t]) /\ ts[t].cancel = "none"
        THEN LET byToggle == toggle /\ ts[t].msg = id /\ t = Len(ts)
                                /\ isSpeakingId = id
                 playing  == ts[t].pc = "play"
             IN  [ts[t] EXCEPT !.cancel =
                    IF byToggle
                    THEN (IF playing THEN "toggle_play" ELSE "toggle_req")
                    ELSE (IF playing THEN "super_play" ELSE "super_req")]
        ELSE ts[t]]

\* stopAudio(), on the pair (activeSourceRef.current, tasks): a source the
\* ref holds is stopped and the ref cleared. isSpeakingId is set by the caller.
StopAudio(st) ==
    IF st.source # NULL
    THEN [source |-> NULL,
          tasks  |-> [t \in 1..Len(st.tasks) |->
                        IF t = st.source /\ st.tasks[t].pc = "play"
                        THEN [st.tasks[t] EXCEPT !.pc = "stopped"]
                        ELSE st.tasks[t]]]
    ELSE st

SpeakState == [source |-> activeSourceRef, tasks |-> tasks]

\* A test that finds a context missing every time.
NeedsContextAlways(ref) == TRUE

\* !audioContextRef.current
NeedsContext(ref) == ref = NULL

\* new AudioContext(...): running, or suspended until a user gesture.
NewContextStates == {"running", "suspended"}

\* handleSpeak(message) up to its first await, called from a closure that
\* captured isSpeakingId = cSpeakingId, autoSpeak = cAutoSpeak and
\* ttsSpeed = cTtsSpeed.
HandleSpeak(id, cSpeakingId, cAutoSpeak, cTtsSpeed) ==
    LET stopped == StopAudio(SpeakState)
    IN  IF cSpeakingId = id
        THEN /\ activeSourceRef' = stopped.source
             /\ tasks' = MarkStopped(stopped.tasks, id, TRUE)
             /\ isSpeakingId' = NULL
             /\ notice' = NoAlert
             /\ UNCHANGED <<speakingLoading, audioContextRef, contextsCreated>>
        ELSE /\ activeSourceRef' = stopped.source
             /\ speakingLoading' = TRUE
             /\ isSpeakingId' = id
             /\ \E created \in NewContextStates :
                  LET ctx == IF NeedsContext(audioContextRef) THEN created
                             ELSE audioContextRef
                  IN  /\ audioContextRef' = ctx
                      /\ contextsCreated' =
                            IF NeedsContext(audioContextRef)
                            THEN contextsCreated + 1 ELSE contextsCreated
                      /\ tasks' = Append(MarkStopped(stopped.tasks, id, FALSE),
                                    [msg |-> id,
                                     pc |-> IF ctx = "suspended" THEN "resume"
                                            ELSE "generate",
                                     autoSpeak |-> cAutoSpeak,
                                     rate |-> cTtsSpeed,
                                     cancel |-> "none"])
             /\ notice' = NoAlert

\* A catch block that reports the failure and leaves the session marked.
CatchTtsKeepsSession(t, ts) ==
    /\ notice' = IF ~ts[t].autoSpeak THEN TtsAlert ELSE NoAlert
    /\ UNCHANGED isSpeakingId
    /\ speakingLoading' = FALSE
    /\ tasks' = [ts EXCEPT ![t].pc = "failed"]

\* The catch block of handleSpeak, run by task t.
CatchTts(t, ts) ==
    /\ notice' = IF ~ts[t].autoSpeak THEN TtsAlert ELSE NoAlert
    /\ isSpeakingId' = NULL
    /\ speakingLoading' = FALSE
    /\ tasks' = [ts EXCEPT ![t].pc = "failed"]

\* The read-aloud button of a model message; disabled while isSpeakingLoading.
SpeakClick(m) ==
    /\ mounted
    /\ m \in 1..Len(messages)
    /\ messages[m].role = "model"
    /\ ~(isSpeakingId = messages[m].id /\ speakingLoading)
    /\ isSpeakingId = messages[m].id \/ Len(tasks) < MaxTasks
    /\ HandleSpeak(messages[m].id, isSpeakingId, autoSpeak, ttsSpeed)
    /\ UNCHANGED <<messages, autoSpeak, lastSpokenMessageId, timers, ingestVars, appVars>>

\* The auto-speak toggle, followed by the auto-speak effect of the render
\* it causes (the effect depends on [messages, autoSpeak]).
ToggleAutoSpeak ==
    LET auto == ~autoSpeak
        lastMessage == messages[Len(messages)]
    IN  /\ mounted
        /\ autoSpeak' = auto
        /\ IF auto /\ Len(messages) # 0 /\ lastMessage.role = "model"
              /\ lastMessage.id # lastSpokenMessageId
           THEN /\ lastSpokenMessageId' = lastMessage.id
                /\ timers' = Append(timers, [msg |-> lastMessage.id,
                                             isSpeakingId |-> isSpeakingId,
                                             autoSpeak |-> auto,
                                             ttsSpeed |-> ttsSpeed])
           ELSE UNCHANGED <<lastSpokenMessageId, timers>>
        /\ notice' = NoAlert
        /\ UNCHANGED <<messages, isSpeakingId, speakingLoading,
                       audioContextRef, contextsCreated,
                       activeSourceRef, tasks, ingestVars, appVars>>

\* The timer of the auto-speak effect fires: handleSpeak of that render.
TimerFire ==
    /\ mounted
    /\ Len(timers) > 0
    /\ timers[1].isSpeakingId = timers[1].msg \/ Len(tasks) < MaxTasks
    /\ HandleSpeak(timers[1].msg, timers[1].isSpeakingId, timers[1].autoSpeak,
                   timers[1].ttsSpeed)
    /\ timers' = Tail(timers)
    /\ UNCHANGED <<messages, autoSpeak, lastSpokenMessageId, ingestVars, appVars>>

\* A continuation that goes on to the synthesis request whether or not
\* resume() succeeded.
ResumeReturnIgnoresFailure(t, ok) ==
    /\ mounted
    /\ t \in 1..Len(tasks)
    /\ tasks[t].pc = "resume"
    /\ audioContextRef' = IF ok THEN "running" ELSE audioContextRef
    /\ tasks' = [tasks EXCEPT ![t].pc = "generate"]
    /\ notice' = NoAlert
    /\ UNCHANGED <<isSpeakingId, speakingLoading>>
    /\ UNCHANGED <<messages, activeSourceRef, autoSpeak, lastSpokenMessageId,
                   timers, contextsCreated, ingestVars, appVars>>

\* await audioContextRef.current.resume() settles.
ResumeReturn(t, ok) ==
    /\ mounted
    /\ t \in 1..Len(tasks)
    /\ tasks[t].pc = "resume"
    /\ IF ok
       THEN /\ audioContextRef' = "running"
            /\ tasks' = [tasks EXCEPT ![t].pc = "generate"]
            /\ notice' = NoAlert
            /\ UNCHANGED <<isSpeakingId, speakingLoading>>
       ELSE /\ CatchTts(t, tasks)
            /\ UNCHANGED audioContextRef
    /\ UNCHANGED <<messages, activeSourceRef, autoSpeak, lastSpokenMessageId,
                   timers, contextsCreated, ingestVars, appVars>>

\* await generateSpeech(...) settles: base64 audio, undefined, or a throw.
GenerateResults == {"audio", "none", "throw"}

GenerateReturn(t, result) ==
    /\ mounted
    /\ t \in 1..Len(tasks)
    /\ tasks[t].pc = "generate"
    /\ IF result = "audio"
       THEN /\ tasks' = [tasks EXCEPT ![t].pc = "decode"]
            /\ notice' = NoAlert
            /\ UNCHANGED <<isSpeakingId, speakingLoading>>
       ELSE CatchTts(t, tasks)
    /\ UNCHANGED <<messages, audioContextRef, contextsCreated, activeSourceRef, autoSpeak,
                   lastSpokenMessageId, timers, ingestVars, appVars>>

\* await decodeAudioData(...) settles; on success playAudioBuffer is called.
DecodeReturn(t, ok) ==
    /\ mounted
    /\ t \in 1..Len(tasks)
    /\ tasks[t].pc = "decode"
    /\ IF ok
       THEN /\ tasks' = [tasks EXCEPT ![t].pc = "play"]
            /\ notice' = NoAlert
            /\ UNCHANGED <<isSpeakingId, speakingLoading>>
       ELSE CatchTts(t, tasks)
    /\ UNCHANGED <<messages, audioContextRef, contextsCreated, activeSourceRef, autoSpeak,
                   lastSpokenMessageId, timers, ingestVars, appVars>>

\* A continuation that clears the session but leaves the loading flag up.
PlayEndedKeepsLoading(t) ==
    /\ mounted
    /\ t \in 1..Len(tasks)
    /\ tasks[t].pc \in {"play", "stopped"}
    /\ isSpeakingId' = NULL
    /\ activeSourceRef' = NULL
    /\ tasks' = [tasks EXCEPT ![t].pc = "ended"]
    /\ notice' = NoAlert
    /\ UNCHANGED <<messages, speakingLoading, audioContextRef, contextsCreated, autoSpeak,
                   lastSpokenMessageId, timers, ingestVars, appVars>>

\* await playAudioBuffer(...) resolves: the source has ended.
PlayEnded(t) ==
    /\ mounted
    /\ t \in 1..Len(tasks)
    /\ tasks[t].pc \in {"play", "stopped"}
    /\ isSpeakingId' = NULL
    /\ activeSourceRef' = NULL
    /\ speakingLoading' = FALSE
    /\ tasks' = [tasks EXCEPT ![t].pc = "ended"]
    /\ notice' = NoAlert
    /\ UNCHANGED <<messages, audioContextRef, contextsCreated, autoSpeak, lastSpokenMessageId,
                   timers, ingestVars, appVars>>

InitSpeak ==
    /\ messages \in Histories
    /\ isSpeakingId = NULL
    /\ speakingLoading = FALSE
    /\ audioContextRef = NULL
    /\ contextsCreated = 0
    /\ activeSourceRef = NULL
    /\ autoSpeak = FALSE
    /\ lastSpokenMessageId = NULL
    /\ tasks = << >>
    /\ timers = << >>

\* The handlers and continuations are followed while App is mounted.
NextSpeak ==
    \/ \E m \in 1..Len(messages) : SpeakClick(m)
    \/ ToggleAutoSpeak
    \/ TimerFire
    \/ \E t \in 1..Len(tasks), ok \in BOOLEAN : ResumeReturn(t, ok)
    \/ \E t \in 1..Len(tasks), result \in GenerateResults : GenerateReturn(t, result)
    \/ \E t \in 1..Len(tasks), ok \in BOOLEAN : DecodeReturn(t, ok)
    \/ \E t \in 1..Len(tasks) : PlayEnded(t)

\* ------------------------------------------------------------- teardown --
\* The cleanup of the mount effect: stopAudio(), then close() on a context
\* that exists and is not closed yet.
Unmount ==
    LET stopped == StopAudio(SpeakState)
    IN  /\ mounted
        /\ mounted' = FALSE
        /\ activeSourceRef' = stopped.source
        /\ tasks' = MarkStopped(stopped.tasks, NULL, FALSE)
        /\ isSpeakingId' = NULL
        /\ audioContextRef' = IF audioContextRef \notin {NULL, "closed"}
                              THEN "closed" ELSE audioContextRef
        /\ notice' = NoAlert
        /\ UNCHANGED <<messages, speakingLoading, contextsCreated, autoSpeak,
                       lastSpokenMessageId, timers, ingestVars, isLoading,
                       ttsSpeed, clock>>

NextLife == Unmount

\* ----------------------------------------------------------------- chat --
\* Date.now().toString(): a fresh id.
NewId(now) == ToString(now)

\* handleSend() of InputArea, with onSendMessage = handleSendMessage up to
\* its await: the user message carries the pending attachments, which are
\* then cleared. hasText is input.trim() being non-empty.
HandleSend(hasText) ==
    /\ ~((~hasText /\ Len(attachments) = 0) \/ isLoading \/ isProcessing)
    /\ Len(messages) + 2 <= MaxMessages
    /\ clock + 2 <= MaxClock
    /\ clock' = clock + 1
    /\ messages' = Append(messages, [id |-> NewId(clock'), role |-> "user",
                                     text |-> hasText,
                                     attachments |-> attachments])
    /\ isLoading' = TRUE
    /\ attachments' = << >>
    /\ notice' = NoAlert
    /\ UNCHANGED <<readers, activeReaders, isProcessing, isSpeakingId,
                   speakingLoading, audioContextRef, contextsCreated, activeSourceRef, autoSpeak,
                   lastSpokenMessageId, tasks, timers, ttsSpeed, mounted>>

\* A continuation that appends the reply and leaves isLoading up.
SendReturnKeepsLoading ==
    LET botMessage == [id |-> NewId(clock + 1), role |-> "model",
                       text |-> TRUE, attachments |-> << >>]
    IN  /\ isLoading
        /\ clock' = clock + 1
        /\ messages' = Append(messages, botMessage)
        /\ notice' = NoAlert
        /\ UNCHANGED <<ingestVars, isSpeakingId, speakingLoading,
                       audioContextRef, contextsCreated, activeSourceRef,
                       autoSpeak, lastSpokenMessageId, tasks, timers,
                       isLoading, ttsSpeed, mounted>>

\* await sendMessageToGemini(...) settles: the reply, or the error text, is
\* appended as a model message and isLoading is reset; the auto-speak
\* effect of the render that follows then sees a new last message.
SendReturn ==
    LET botMessage == [id |-> NewId(clock + 1), role |-> "model",
                       text |-> TRUE, attachments |-> << >>]
    IN  /\ isLoading
        /\ clock' = clock + 1
        /\ messages' = Append(messages, botMessage)
        /\ isLoading' = FALSE
        /\ IF autoSpeak /\ botMessage.id # lastSpokenMessageId
           THEN /\ lastSpokenMessageId' = botMessage.id
                /\ timers' = Append(timers, [msg |-> botMessage.id,
                                             isSpeakingId |-> isSpeakingId,
                                             autoSpeak |-> autoSpeak,
                                             ttsSpeed |-> ttsSpeed])
           ELSE UNCHANGED <<lastSpokenMessageId, timers>>
        /\ notice' = NoAlert
        /\ UNCHANGED <<ingestVars, isSpeakingId, speakingLoading,
                       audioContextRef, contextsCreated, activeSourceRef, autoSpeak, tasks,
                       ttsSpeed, mounted>>

\* initNewChat(), the New Chat button (and Clear History once confirmed):
\* the list is replaced by the welcome message, and the auto-speak effect
\* of the render that follows sees it as the last message.
InitNewChat ==
    /\ messages # <<Welcome>>
    /\ messages' = <<Welcome>>
    /\ IF autoSpeak /\ Welcome.id # lastSpokenMessageId
       THEN /\ lastSpokenMessageId' = Welcome.id
            /\ timers' = Append(timers, [msg |-> Welcome.id,
                                         isSpeakingId |-> isSpeakingId,
                                         autoSpeak |-> autoSpeak,
                                         ttsSpeed |-> ttsSpeed])
       ELSE UNCHANGED <<lastSpokenMessageId, timers>>
    /\ notice' = NoAlert
    /\ UNCHANGED <<ingestVars, isSpeakingId, speakingLoading, audioContextRef,
                   contextsCreated, activeSourceRef, autoSpeak, tasks, appVars>>

InitChat == isLoading = FALSE /\ mounted = TRUE /\ clock = 0

NextChat ==
    \/ \E hasText \in BOOLEAN : HandleSend(hasText)
    \/ SendReturn
    \/ InitNewChat

\* ------------------------------------------------------------- settings --
\* What localStorage.getItem('gemini_tts_speed') can return, as characters:
\* a decimal text, or nothing (the empty sequence stands for null).
PersistedSpeeds == { << >>, <<"0",".","5">>, <<"2",".","5">> }

Digit(c) == CHOOSE d \in 0..9 : ToString(d) = c

\* parseFloat of a text "d.d", in tenths
ParseFloat(text) == 10 * Digit(text[1]) + Digit(text[3])

\* The value an <input type="range" min="0.5" max="2.0"> reports for a
\* requested position: the browser keeps it within [min, max].
SliderValue(requested) ==
    IF requested < MinSpeed THEN MinSpeed
    ELSE IF requested > MaxSpeed THEN MaxSpeed
    ELSE requested

\* Positions a user can ask of the slider, in tenths.
RequestedSpeeds == {3, 5, 20, 25}

\* onChange of the speed slider (fired when the value changes)
SetTtsSpeed(requested) ==
    /\ ttsSpeed' = SliderValue(requested)
    /\ ttsSpeed' # ttsSpeed
    /\ notice' = NoAlert
    /\ UNCHANGED <<ingestVars, speakVars, isLoading, mounted, clock>>

\* The mount effect: useState(1.0), replaced by the saved speed if any.
InitConfig ==
    \E savedSpeed \in PersistedSpeeds :
        ttsSpeed = IF Len(savedSpeed) > 0 THEN ParseFloat(savedSpeed)
                   ELSE DefaultSpeed

NextConfig == \E requested \in RequestedSpeeds : SetTtsSpeed(requested)

\* ======================================================= specifications ==
Init == InitIngest /\ InitSpeak /\ InitChat /\ InitConfig /\ notice = NoAlert

Next == NextIngest \/ NextSpeak \/ NextChat \/ NextConfig \/ NextLife

\* The whole component tree.
Spec == Init /\ [][Next]_vars

\* The input area alone, and the read-aloud pipeline alone: neither reads
\* the other's state.
SpecIngest == Init /\ [][NextIngest]_vars
SpecSpeak  == Init /\ [][NextSpeak]_vars

\* The input area with the send path, and the read-aloud pipeline with the
\* speed setting.
SpecSend == Init /\ [][NextIngest \/ NextChat]_vars

\* The chat exchange with the auto-speak switch, whose effect runs on every
\* new message: messages are sent without attachments and the timers the
\* effect sets are left pending.
SpecChat == Init /\ [][NextChat \/ ToggleAutoSpeak]_vars

\* The read-aloud pipeline over the component's lifetime, teardown included.
SpecLife == Init /\ [][NextSpeak \/ NextLife]_vars

\* The input area with processFiles also called directly.
SpecSubmit == Init /\ [][NextIngest \/ NextSubmit]_vars
SpecRate == Init /\ [][NextSpeak \/ NextConfig]_vars

\* ================================================= properties: InputArea ==
ReaderIds == 1..Len(readers)

\* The declared type starts with "image/", read off the characters.
HasImagePrefix(type) ==
    /\ Len(type) >= 6
    /\ type[1] = "i" /\ type[2] = "m" /\ type[3] = "a"
    /\ type[4] = "g" /\ type[5] = "e" /\ type[6] = "/"

ImageIndices(files) == { i \in 1..Len(files) : HasImagePrefix(files[i].type) }

\* What a processFiles(files) step must have done, for a batch of N files
\* of which K are images.
SubmitOutcome(files) ==
    LET K == Cardinality(ImageIndices(files))
        fresh == (Len(readers) + 1)..Len(readers')
    IN  IF K >= 1
        THEN /\ Len(readers') = Len(readers) + K
             /\ Len(activeReaders') = Len(activeReaders) + K
             /\ \A r \in ReaderIds : readers'[r] = readers[r]
             /\ \A i \in 1..Len(activeReaders) : activeReaders'[i] = activeReaders[i]
             /\ { activeReaders'[i] : i \in (Len(activeReaders) + 1)..Len(activeReaders') }
                    = fresh
             /\ \A r \in fresh : /\ readers'[r].state = "loading"
                                 /\ HasImagePrefix(readers'[r].file.type)
             /\ notice' = NoAlert
        ELSE /\ notice' = ValidationAlert
             /\ readers' = readers
             /\ activeReaders' = activeReaders
             /\ attachments' = attachments
             /\ isProcessing' = isProcessing

\* C1: a processFiles call on N files of which K have an image/ type
\* registers exactly K new pending readers (none for the other N-K files)
\* when K >= 1; when K = 0 and N > 0 it raises the validation alert and
\* leaves the readers, the pending set, the attachments and isProcessing
\* as they were.
C1_SubmitPartition ==
    [][\A files \in Batches : ProcessFiles(files) => SubmitOutcome(files)]_vars

\* C1 witness: a batch with one image has registered one reader, and a
\* later batch without any image was refused, the reader still pending.
C1_Witness ==
    /\ notice = ValidationAlert
    /\ Len(readers) = 1
    /\ activeReaders = <<1>>
    /\ readers[1].state = "loading"
    /\ isProcessing

\* C2: no attachment in the list comes from a reader that was pending when
\* cancelUpload was called.
C2_NoAttachmentAfterCancel ==
    \A i \in 1..Len(attachments) : ~readers[attachments[i].reader].cancelled

\* C7: no attachment in the list comes from a reader that was still reading
\* when clearAttachments was called.
C7_NoAttachmentAfterClear ==
    \A i \in 1..Len(attachments) : ~readers[attachments[i].reader].cleared

\* C8: isProcessing is true exactly when activeReaders is non-empty.
C8_ProcessingIffPending == isProcessing <=> (Len(activeReaders) > 0)

\* C8 witness: a reader is pending and the flag is up while an earlier
\* reader has already loaded.
C8_Witness ==
    /\ isProcessing
    /\ Len(activeReaders) > 0
    /\ \E r \in ReaderIds : readers[r].state = "loaded"

\* C9: activeReaders holds exactly the readers that are still reading.
C9_PendingIsRunning ==
    Range(activeReaders) = { r \in ReaderIds : readers[r].state = "loading" }

\* C10: a step in which a reader fails removes that reader from the pending
\* set, adds no attachment and leaves every other reader as it was; a step
\* in which a reader loads appends exactly one attachment, that reader's.
C10_Step ==
    \A r \in ReaderIds :
        /\ (readers[r].state = "loading" /\ readers'[r].state = "error") =>
              /\ attachments' = attachments
              /\ Range(activeReaders') = Range(activeReaders) \ {r}
              /\ \A s \in ReaderIds \ {r} : readers'[s] = readers[s]
        /\ (readers[r].state = "loading" /\ readers'[r].state = "loaded") =>
              /\ Len(attachments') = Len(attachments) + 1
              /\ attachments'[Len(attachments')].reader = r
              /\ SubSeq(attachments', 1, Len(attachments)) = attachments
              /\ \A s \in ReaderIds \ {r} : readers'[s] = readers[s]

C10_FailureSparesSiblings == [][C10_Step]_vars

\* C10 witness: of two readers of one batch the first failed and the second
\* then loaded, and the list holds the second's attachment alone.
C10_Witness ==
    /\ Len(readers) >= 2
    /\ readers[1].batch = readers[2].batch
    /\ readers[1].state = "error"
    /\ readers[2].state = "loaded"
    /\ Len(attachments) = 1
    /\ attachments[1].reader = 2

\* C11: every attachment of a message submitted through handleSend has a
\* non-empty data and a mimeType that starts with "image/".
C11_SentAttachmentsValid ==
    \A m \in 1..Len(messages) :
        \A i \in 1..Len(messages[m].attachments) :
            /\ messages[m].attachments[i].data > 0
            /\ HasImagePrefix(messages[m].attachments[i].mimeType)

\* The readers whose read completes in this step.
LoadedNow == { r \in ReaderIds : readers[r].state = "loading"
                                  /\ readers'[r].state = "loaded" }

\* C17: at most one read completes in a step; when one does, the list is
\* the old list with exactly one attachment, that reader's, appended at the
\* end; no step makes the list longer otherwise. The list is therefore in
\* completion order.
C17_AppendInCompletionOrder ==
    [][/\ Cardinality(LoadedNow) <= 1
       /\ \A r \in LoadedNow :
             /\ Len(attachments') = Len(attachments) + 1
             /\ SubSeq(attachments', 1, Len(attachments)) = attachments
             /\ attachments'[Len(attachments')].reader = r
             /\ attachments'[Len(attachments')].mimeType = readers[r].file.type
       /\ LoadedNow = {} => Len(attachments') <= Len(attachments)]_vars

\* C17 witness: two files submitted together completed in the opposite
\* order, and the list holds the second file's attachment first.
C17_Witness ==
    /\ Len(readers) = 2
    /\ readers[1].batch = readers[2].batch
    /\ Len(attachments) = 2
    /\ attachments[1].reader = 2
    /\ attachments[2].reader = 1

\* C18: when no reader is reading any more, isProcessing is false.
C18_AllResolvedClearsFlag ==
    (\A r \in ReaderIds : readers[r].state # "loading") => ~isProcessing

\* C18 witness: two readers were started, one loaded and the other failed,
\* and the flag is down.
C18_Witness ==
    /\ Len(readers) = 2
    /\ readers[1].state = "loaded"
    /\ readers[2].state = "error"
    /\ activeReaders = << >>
    /\ ~isProcessing

C20_CancelIdempotent ==
    LET once == CancelUploadResult(IngestState)
    IN  /\ CancelUploadResult(once) = once
        /\ (Len(activeReaders) = 0 /\ ~isProcessing) => once = IngestState

\* C20 witness: cancelUpload has aborted a pending reader and nothing is
\* pending now.
C20_Witness ==
    /\ \E r \in ReaderIds : readers[r].cancelled /\ readers[r].state = "aborted"
    /\ Len(activeReaders) = 0
    /\ ~isProcessing

\* A step in which handleSend submits a message.
SendStep ==
    /\ Len(messages') = Len(messages) + 1
    /\ messages'[Len(messages')].role = "user"

\* C24: a step in which handleSend submits a message starts from a state
\* in which no reader is still reading, isProcessing and isLoading are
\* false, and the message has text or attachments; the attachments it
\* carries are the pending list of that state.
C24_SendOnlyWhenSettled ==
    [][SendStep =>
          /\ \A r \in ReaderIds : readers[r].state # "loading"
          /\ ~isProcessing
          /\ ~isLoading
          /\ messages'[Len(messages')].text
                \/ Len(messages'[Len(messages')].attachments) > 0
          /\ messages'[Len(messages')].attachments = attachments]_vars

\* A step in which a model message is appended.
ReplyStep ==
    /\ Len(messages') = Len(messages) + 1
    /\ messages'[Len(messages')].role = "model"

\* C25: isLoading goes up exactly in the steps that append one user message
\* and down exactly in the steps that append one model message; apart from
\* a new chat, which puts the welcome message in place of the list, the
\* list only changes by one message added at the end.
C25_OneReplyPerSend ==
    [][/\ (messages' # messages /\ messages' # <<Welcome>>) =>
             /\ Len(messages') = Len(messages) + 1
             /\ SubSeq(messages', 1, Len(messages)) = messages
       /\ SendStep <=> (~isLoading /\ isLoading')
       /\ ReplyStep <=> (isLoading /\ ~isLoading')]_vars

\* C25 witness: starting from the welcome message alone, a message was sent
\* and answered, and isLoading is down again.
C25_Witness ==
    /\ Len(messages) = 3
    /\ messages[2].id = "1" /\ messages[2].role = "user"
    /\ messages[3].id = "2" /\ messages[3].role = "model"
    /\ ~isLoading

\* ======================================================= properties: App ==
TaskIds == 1..Len(tasks)

\* C3: at most one playback source is audible at any time.
C3_OneAudibleSource ==
    Cardinality({ t \in TaskIds : Audible(tasks[t]) }) <= 1

\* C4: a session stopped by a second handleSpeak for the same message, with
\* no other handleSpeak in between, is not audible afterwards.
C4_ToggleSilences ==
    \A t \in TaskIds :
        tasks[t].cancel \in {"toggle_req", "toggle_play"} => ~Audible(tasks[t])

\* C5: a session that was stopped while it was still requesting never gets
\* as far as playback.
C5_LateResultDiscarded ==
    \A t \in TaskIds :
        tasks[t].cancel \in {"toggle_req", "super_req"} =>
            tasks[t].pc \notin {"play", "stopped", "ended"}

\* A step in which task t, awaiting resume, synthesis or decoding, fails.
FailsStep(t) == tasks[t].pc \in Requesting /\ tasks'[t].pc = "failed"

\* A step in which handleSpeak starts a session.
StartsStep == Len(tasks') = Len(tasks) + 1

C12_StopHaltsSession ==
    [][\A t \in TaskIds :
          (tasks[t].cancel = "none" /\ tasks'[t].cancel # "none") =>
              /\ ~Audible(tasks'[t])
              /\ activeSourceRef' = NULL
              /\ tasks'[t].cancel \in {"toggle_req", "toggle_play"} =>
                    (isSpeakingId' = NULL /\ ~speakingLoading')]_vars

\* C13: while the audio of the current session is playing, the session is
\* shown as playing (isSpeakingId is its message) and not as loading.
C13_PlayingNotLoading ==
    \A t \in TaskIds :
        (Audible(tasks[t]) /\ tasks[t].cancel = "none") =>
            (isSpeakingId = tasks[t].msg /\ ~speakingLoading)

\* C14: the configured speed is within [0.5, 2.0] in every state, and a
\* session that is playing plays at the configured speed.
C14_RateInRange ==
    /\ MinSpeed <= ttsSpeed
    /\ ttsSpeed <= MaxSpeed
    /\ \A t \in TaskIds : Audible(tasks[t]) => tasks[t].rate = ttsSpeed

\* C15: in the step in which handleSpeak starts a session, every session
\* that was in flight has had its output terminated and the source handle
\* is released.
C15_StopBeforeStart ==
    [][StartsStep =>
          /\ activeSourceRef' = NULL
          /\ \A t \in TaskIds : IsInFlight(tasks[t]) => ~Audible(tasks'[t])]_vars

\* C16: the step in which the playback of the current session ends by
\* itself leaves the pipeline idle (no speaking id, no loading flag) with
\* the source handle released, and a session that has ended stays ended.
C16_NaturalEndIdle ==
    [][\A t \in TaskIds :
          /\ (tasks[t].pc = "play" /\ tasks'[t].pc = "ended"
                 /\ tasks[t].cancel = "none") =>
                /\ isSpeakingId' = NULL
                /\ ~speakingLoading'
                /\ activeSourceRef' = NULL
                /\ ~Audible(tasks'[t])
          /\ tasks[t].pc = "ended" => tasks'[t].pc = "ended"]_vars

\* C16 witness: the one session started has played to its end and the
\* pipeline is idle.
C16_Witness ==
    /\ Len(tasks) = 1
    /\ tasks[1].pc = "ended"
    /\ tasks[1].cancel = "none"
    /\ isSpeakingId = NULL
    /\ ~speakingLoading
    /\ activeSourceRef = NULL
\* C21: at most one AudioContext is ever constructed, none before the first
\* handleSpeak that starts a session, and the ref holds one exactly when one
\* was constructed; the context is never closed while the component is
\* mounted and is closed once it is torn down.
C21_ContextCreatedOnce ==
    /\ contextsCreated <= 1
    /\ (audioContextRef = NULL) <=> (contextsCreated = 0)
    /\ contextsCreated = 1 => Len(tasks) >= 1
    /\ mounted => audioContextRef # "closed"
    /\ ~mounted => audioContextRef \in {NULL, "closed"}

\* C21 witness: two sessions were started on one context, which the
\* teardown has closed.
C21_Witness ==
    /\ ~mounted
    /\ Len(tasks) = 2
    /\ contextsCreated = 1
    /\ audioContextRef = "closed"
\* C22: a session that is past the resume step (its synthesis request is
\* out, its audio is being decoded or it is playing) has a context that is
\* not suspended.
C22_ResumedBeforeRequest ==
    \A t \in TaskIds :
        tasks[t].pc \in {"generate", "decode", "play"} =>
            audioContextRef \notin {NULL, "suspended"}

\* C22 witness: the second session is still waiting for resume(), so the
\* context was suspended when both sessions started, and the first session
\* is past the resume step on a running context.
C22_Witness ==
    /\ Len(tasks) = 2
    /\ tasks[2].pc = "resume"
    /\ tasks[1].pc \in {"generate", "decode", "play"}
    /\ audioContextRef = "running"
\* Session b is the current one and superseded session a, for a different
\* message.
Supersedes(b, a) ==
    /\ b > a
    /\ tasks[a].cancel \in {"super_req", "super_play"}
    /\ tasks[b].msg # tasks[a].msg
    /\ tasks[b].cancel = "none"
    /\ IsInFlight(tasks[b])
    /\ isSpeakingId = tasks[b].msg

\* C23: a step in which a superseded session ends or fails leaves the
\* current session's indicator (isSpeakingId) and the loading flag as they
\* were.
C23_LateEndSparesCurrent ==
    [][\A a, b \in TaskIds :
          (/\ Supersedes(b, a)
           /\ IsInFlight(tasks[a])
           /\ tasks'[a].pc \in {"ended", "failed"}) =>
              UNCHANGED <<isSpeakingId, speakingLoading>>]_vars

====
